---- MODULE Spec2Model ----
(***************************************************************************)
(* FileService (src/src/index.ts): uploads with bounded retry and          *)
(* exponential backoff, and the public-access reconciliation that edits    *)
(* the bucket's IAM policy by read-modify-write.                           *)
(*                                                                         *)
(* Strings are sequences of one-character strings, so that sanitising,     *)
(* joining, prefixing and slicing are computed as the code computes them.  *)
(***************************************************************************)
EXTENDS Integers, Sequences, FiniteSets, TLC

(* ------------------------------------------------------------------ *)
(* Bounds of the model                                                 *)
(* ------------------------------------------------------------------ *)

\* longest binding list of a starting policy
MaxBindings == 1

\* grants other clients of the bucket add to the policy during a behaviour
MaxExternalGrants == 1

(* ------------------------------------------------------------------ *)
(* Values                                                              *)
(* ------------------------------------------------------------------ *)

\* an absent optional string (a token no character sequence contains)
UNDEFINED == <<"undefined">>

\* the uploadFile calls of one FileService instance
Calls == {1, 2}

\* the values Date.now() returns
Timestamps == {17}

\* the values Math.floor(Math.random() * 10_000) returns
RandomSuffixes == {0, 9999}

Digits == {"0", "1", "2", "3", "4", "5", "6", "7", "8", "9"}

\* the letters that stand for a-zA-Z
Letters == {"a", "d", "f", "u", "U"}

bucketName == <<"b", "k", "t">>

maxRetries == 3

\* while (attempt < maxRetries), if (attempt < maxRetries)
RetryRemaining_offByOne(attempt) == attempt <= maxRetries

RetryRemaining(attempt) == attempt < maxRetries

PUBLIC_ROLE == "roles/storage.objectViewer"

ALL_USERS == "allUsers"

\* the binding ensurePublicReadAccess pushes
PublicBinding == [role |-> PUBLIC_ROLE, members |-> <<ALL_USERS>>]

(* ------------------------------------------------------------------ *)
(* Pure functions                                                      *)
(* ------------------------------------------------------------------ *)

RECURSIVE ToDigits(_)
\* `${n}` for a non-negative integer
ToDigits(n) ==
  LET d == <<"0", "1", "2", "3", "4", "5", "6", "7", "8", "9">>
  IN  IF n < 10 THEN <<d[n + 1]>> ELSE ToDigits(n \div 10) \o <<d[(n % 10) + 1]>>

\* segment.replace(/[^a-zA-Z0-9/_-]/g, "_")
sanitizePathSegment(segment) ==
  [i \in 1..Len(segment) |->
     IF segment[i] \in Letters \cup Digits \cup {"/", "_", "-"}
     THEN segment[i] ELSE "_"]

cleanName_asSegment(originalName) == sanitizePathSegment(originalName)

\* originalName.replace(/[^a-zA-Z0-9.]/g, "_")
cleanName(originalName) ==
  [i \in 1..Len(originalName) |->
     IF originalName[i] \in Letters \cup Digits \cup {"."}
     THEN originalName[i] ELSE "_"]

\* segment && segment.trim().length > 0
NonBlank(segment) ==
  /\ segment # UNDEFINED
  /\ \E i \in 1..Len(segment) : segment[i] # " "

RECURSIVE Join(_, _)
\* segments.join(sep)
Join(segments, sep) ==
  IF Len(segments) = 0 THEN <<>>
  ELSE IF Len(segments) = 1 THEN segments[1]
  ELSE segments[1] \o sep \o Join(Tail(segments), sep)

composeObjectPath(userId, directory) ==
  LET kept == SelectSeq(<<userId, directory>>, NonBlank)
      segments == [i \in 1..Len(kept) |-> sanitizePathSegment(kept[i])]
  IN  IF Len(segments) = 0 THEN UNDEFINED ELSE Join(segments, <<"/">>)

\* timestamp = Date.now(), randomSuffix = Math.floor(Math.random() * 10_000)
buildObjectName(pathPrefix, originalName, timestamp, randomSuffix) ==
  LET baseName == ToDigits(timestamp) \o <<"_">> \o ToDigits(randomSuffix)
                    \o <<"_">> \o cleanName(originalName)
  IN  IF pathPrefix # UNDEFINED /\ pathPrefix # <<>>
      THEN pathPrefix \o <<"/">> \o baseName
      ELSE baseName

\* `https://storage.googleapis.com/${this.bucketName}/`
UrlPrefix ==
  <<"h", "t", "t", "p", "s", ":", "/", "/",
    "s", "t", "o", "r", "a", "g", "e", ".",
    "g", "o", "o", "g", "l", "e", "a", "p", "i", "s", ".",
    "c", "o", "m", "/">> \o bucketName \o <<"/">>

buildPublicUrl(objectName) == UrlPrefix \o objectName

\* fileUrl.startsWith(prefix)
StartsWith(s, prefix) ==
  /\ Len(s) >= Len(prefix)
  /\ SubSeq(s, 1, Len(prefix)) = prefix

RECURSIVE extractObjectName_lastSegment(_)
extractObjectName_lastSegment(fileUrl) ==
  IF \E i \in 1..Len(fileUrl) : fileUrl[i] = "/"
  THEN extractObjectName_lastSegment(Tail(fileUrl))
  ELSE fileUrl

extractObjectName_alwaysSlices(fileUrl) ==
  SubSeq(fileUrl, Len(UrlPrefix) + 1, Len(fileUrl))

extractObjectName(fileUrl) ==
  IF StartsWith(fileUrl, UrlPrefix)
  THEN SubSeq(fileUrl, Len(UrlPrefix) + 1, Len(fileUrl))
  ELSE fileUrl

waitTime_fromZero(attempt) == (2 ^ (attempt - 1)) * 100

\* Math.pow(2, attempt) * 100
waitTime(attempt) == (2 ^ attempt) * 100

(* ------------------------------------------------------------------ *)
(* Errors and results                                                  *)
(* ------------------------------------------------------------------ *)

\* let lastError: unknown = undefined
NoError == [kind |-> "undefined", message |-> ""]

\* what a failed call rejects with: Error instances (the message may be
\* empty, as of new Error()) and a thrown value that is no Error
Thrown ==
  {[kind |-> "Error", message |-> m] : m \in {"", "ECONNRESET"}}
    \cup {[kind |-> "other", message |-> ""]}

NoFailure == [text |-> "none", attempts |-> 0, message |-> ""]

\* new Error(`Unable to upload file after ${maxRetries} attempts: ${lastError.message}`)
\* new Error(`Unable to upload file after ${maxRetries} attempts due to an unknown error.`)
ExhaustedError_alwaysWraps(lastError) ==
  [text |-> "Unable to upload file after N attempts: M",
   attempts |-> maxRetries, message |-> lastError.message]

ExhaustedError(lastError) ==
  IF lastError.kind = "Error"
  THEN [text |-> "Unable to upload file after N attempts: M",
        attempts |-> maxRetries, message |-> lastError.message]
  ELSE [text |-> "Unable to upload file after N attempts due to an unknown error.",
        attempts |-> maxRetries, message |-> ""]

\* the rejection of ready(): ensureBucketExists threw
BucketError == [text |-> "Failed to verify bucket", attempts |-> 0, message |-> ""]

\* lastError = error
CaughtError_keepsFirst(previous, error) ==
  IF previous.kind = "undefined" THEN error ELSE previous

CaughtError(previous, error) == error

(* ------------------------------------------------------------------ *)
(* The bucket's IAM policy                                             *)
(* ------------------------------------------------------------------ *)

Roles == {PUBLIC_ROLE, "roles/storage.admin"}

MemberLists == {<<ALL_USERS>>, <<"user:a">>, <<"user:a", ALL_USERS>>}

Bindings == [role : Roles, members : MemberLists]

\* a binding another client of the bucket grants
ExternalBindings ==
  {[role |-> "roles/storage.legacyBucketReader", members |-> <<"user:b">>]}

RECURSIVE BindingLists(_)
\* the binding lists of at most n bindings the backend returns: one binding a role
BindingLists(n) ==
  IF n = 0 THEN {<<>>}
  ELSE LET shorter == BindingLists(n - 1)
       IN  shorter \cup
           {Append(l, b) : l \in {s \in shorter : Len(s) = n - 1},
                           b \in Bindings} 

DistinctRoles(bindings) ==
  \A i, j \in 1..Len(bindings) : bindings[i].role = bindings[j].role => i = j

\* policy.bindings may be undefined (hasBindings = FALSE)
InitPolicies ==
  {[version |-> 1, hasBindings |-> FALSE, bindings |-> <<>>]}
    \cup {[version |-> 1, hasBindings |-> TRUE, bindings |-> l] :
            l \in {x \in BindingLists(MaxBindings) : DistinctRoles(x)}}

\* binding.role === "roles/storage.objectViewer" && binding.members?.includes("allUsers")
IsPublicRead(binding) ==
  /\ binding.role = PUBLIC_ROLE
  /\ \E i \in 1..Len(binding.members) : binding.members[i] = ALL_USERS

alreadyPublic_roleOnly(p) ==
  p.hasBindings /\ \E i \in 1..Len(p.bindings) : p.bindings[i].role = PUBLIC_ROLE

alreadyPublic_never(p) == FALSE

\* policy.bindings?.some(...)
alreadyPublic(p) ==
  p.hasBindings /\ \E i \in 1..Len(p.bindings) : IsPublicRead(p.bindings[i])

PushPublicBinding_replaces(p) ==
  [p EXCEPT !.hasBindings = TRUE, !.bindings = <<PublicBinding>>]

\* policy.bindings = policy.bindings ?? []; policy.bindings.push({...})
PushPublicBinding(p) ==
  [p EXCEPT !.hasBindings = TRUE, !.bindings = Append(p.bindings, PublicBinding)]


(* ------------------------------------------------------------------ *)
(* State                                                               *)
(* ------------------------------------------------------------------ *)

VARIABLES
  config,                 \* FileServiceOptions given to the constructor
  initializationPromise,  \* "absent", "pending", "fulfilled" or "rejected"
  policy,                 \* the bucket's IAM policy, at the backend
  objects,                \* the keys of the objects stored in the bucket
  publicObjects,          \* the keys whose object ACL grants public read
  externalGrants,         \* how many grants other clients have added
  call,                   \* per uploadFile call: its locals and position
  existsChecks,           \* bucket.exists() calls issued so far
  op,                     \* per call of ready, getFileFromUrl, deleteFile, getUserFiles
  codec                   \* a key taken through buildPublicUrl and extractObjectName

vars ==
  <<config, initializationPromise, policy, objects, publicObjects,
    externalGrants, call, existsChecks, op, codec>>

\* FileServiceOptions: optional fields are "undefined" or UNDEFINED when absent
Configs ==
  {[defaultUserId |-> UNDEFINED, allowPublicAccess |-> "undefined",
    validateBucketOnStartup |-> "undefined"],
   [defaultUserId |-> <<"U">>, allowPublicAccess |-> "false",
    validateBucketOnStartup |-> "false"]}

\* file.originalname
OriginalNames == {<<"f", ".", "a">>}

\* UploadOptions
UploadOptionsSet ==
  {[userId |-> UNDEFINED, directory |-> UNDEFINED, makePublic |-> "undefined"],
   [userId |-> <<"u", "1">>, directory |-> <<"d", " ">>, makePublic |-> "true"]}

\* this.allowPublicAccess = options.allowPublicAccess ?? true
allowPublicAccess ==
  IF config.allowPublicAccess = "undefined" THEN TRUE
  ELSE config.allowPublicAccess = "true"

EffectiveMakePublic_ignoresOption(options) == allowPublicAccess

\* options.makePublic ?? this.allowPublicAccess
EffectiveMakePublic(options) ==
  IF options.makePublic = "undefined" THEN allowPublicAccess
  ELSE options.makePublic = "true"

\* options.userId ?? this.defaultUserId
TargetUserId(options) ==
  IF options.userId = UNDEFINED THEN config.defaultUserId ELSE options.userId

NoPolicy == [version |-> 0, hasBindings |-> FALSE, bindings |-> <<>>]

NoResult == [kind |-> "pending", url |-> <<>>, error |-> NoFailure]

\* an uploadFile call that has not been made
IdleCall ==
  [pc |-> "idle",
   originalname |-> <<>>,
   options |-> [userId |-> UNDEFINED, directory |-> UNDEFINED,
                makePublic |-> "undefined"],
   objectName |-> <<>>,
   attempt |-> 0,
   lastError |-> NoError,
   localPolicy |-> NoPolicy,
   result |-> NoResult,
   \* history of the call, read by the properties only
   readyCheck |-> "none",    \* how the awaited ready() settled: ok, failed
   thrown |-> NoError,       \* what the latest failed writeFile rejected with
   writes |-> 0,             \* writeFile calls made
   written |-> <<>>,         \* keys of the writeFile calls that finished
   targets |-> <<>>,         \* keys of the writeFile calls made, in order
   waits |-> <<>>,           \* setTimeout delays, in order
   before |-> NoPolicy,      \* backend policy when getPolicy was called
   policyStep |-> "none",    \* fetchFailed, skipped, written, writeFailed
   aclStep |-> "none",       \* ok, failed
   lost |-> {}]              \* bindings this call's setPolicy removed

\* the calls of the other public operations
Ops == {1, 2}

\* a call of ready, getFileFromUrl, deleteFile or getUserFiles not yet made
IdleOp ==
  [kind |-> "none",          \* ready, get, delete, list
   pc |-> "idle",
   url |-> <<>>,             \* url of getFileFromUrl, fileUrl of deleteFile
   directory |-> UNDEFINED,  \* arguments of getUserFiles
   userId |-> UNDEFINED,
   objectName |-> <<>>,
   results |-> <<>>,         \* FileInfo[] of getUserFiles
   outcome |-> "pending",    \* resolved, or the error rejected with
   \* history of the call, read by the properties only
   readyCheck |-> "none",    \* how the awaited ready() settled: ok, failed
   backendCalls |-> 0,       \* object, listing, policy or ACL calls issued
   reads |-> 0,              \* createReadStream calls issued
   seen |-> {}]              \* the keys the bucket held when it was queried

NoCodec == [pc |-> "none", key |-> <<>>, url |-> <<>>, decoded |-> <<>>]

ValidatesOnStartup_onlyTrue == config.validateBucketOnStartup = "true"

\* options.validateBucketOnStartup !== false
ValidatesOnStartup == config.validateBucketOnStartup # "false"

\* the state after new FileService(options), on a bucket with policy p
Constructed(p) ==
  /\ initializationPromise = IF ValidatesOnStartup THEN "pending" ELSE "absent"
  /\ existsChecks = IF ValidatesOnStartup THEN 1 ELSE 0
  /\ policy = p
  /\ objects = {}
  /\ publicObjects = {}
  /\ externalGrants = 0
  /\ call = [c \in Calls |-> IdleCall]
  /\ op = [o \in Ops |-> IdleOp]

Init ==
  /\ config \in Configs
  /\ \E p \in InitPolicies : Constructed(p)
  /\ codec = NoCodec

Set(c, r) == call' = [call EXCEPT ![c] = r]

(* ------------------------------------------------------------------ *)
(* Readiness                                                           *)
(* ------------------------------------------------------------------ *)

\* the promise of ensureBucketExists() started by the constructor settles
BucketValidationSettles ==
  /\ initializationPromise = "pending"
  /\ initializationPromise' \in {"fulfilled", "rejected"}
  /\ UNCHANGED <<config, policy, objects, publicObjects, externalGrants, call,
                 existsChecks, op, codec>>

(* ------------------------------------------------------------------ *)
(* uploadFile                                                          *)
(* ------------------------------------------------------------------ *)

\* uploadFile(file, options) is called: await this.ready()
UploadCalled(c, originalname, options) ==
  /\ call[c].pc = "idle"
  /\ Set(c, [call[c] EXCEPT !.pc = "ready",
                            !.originalname = originalname,
                            !.options = options])
  /\ UNCHANGED <<config, initializationPromise, policy, objects,
                 publicObjects, externalGrants, existsChecks, op, codec>>

\* how an awaited ready() can settle: the memoised outcome of the
\* constructor's check, or that of a check of its own
ReadySettles(ok) ==
  /\ initializationPromise # "pending"
  /\ initializationPromise = "fulfilled" => ok
  /\ initializationPromise = "rejected" => ~ok

\* ready() calls ensureBucketExists() itself when the constructor kept no promise
CheckIssued ==
  existsChecks' =
    IF initializationPromise = "absent" THEN existsChecks + 1 ELSE existsChecks

Proceeds_ignoresFailure(ok) == TRUE

\* await this.ready(): the operation goes on only if ready() resolved
Proceeds(ok) == ok

ReadyCheck(ok) == IF ok THEN "ok" ELSE "failed"

\* lines 127-139: the key is built, the retry loop is entered
EnterLoop(c, cur, timestamp, randomSuffix) ==
  LET o == cur.options
      sanitizedPath == composeObjectPath(TargetUserId(o), o.directory)
  IN  Set(c, [cur EXCEPT
                !.pc = "write",
                !.objectName = buildObjectName(sanitizedPath, call[c].originalname,
                                               timestamp, randomSuffix),
                !.attempt = 0,
                !.lastError = NoError])

\* ready() settles: the awaited initializationPromise, or a fresh
\* ensureBucketExists() when the constructor started none
UploadReady(c) ==
  /\ call[c].pc = "ready"
  /\ \E ok \in BOOLEAN :
       LET cur == [call[c] EXCEPT !.readyCheck = ReadyCheck(ok)]
       IN  /\ ReadySettles(ok)
           /\ IF Proceeds(ok)
              THEN \E timestamp \in Timestamps, randomSuffix \in RandomSuffixes :
                     EnterLoop(c, cur, timestamp, randomSuffix)
              ELSE Set(c, [cur EXCEPT
                             !.pc = "rejected",
                             !.result = [kind |-> "error", url |-> <<>>,
                                         error |-> BucketError]])
  /\ CheckIssued
  /\ UNCHANGED <<config, initializationPromise, policy, objects,
                 publicObjects, externalGrants, op, codec>>

\* return this.buildPublicUrl(objectName)
ReturnUrl(cur) ==
  [cur EXCEPT !.pc = "resolved",
              !.result = [kind |-> "url", url |-> buildPublicUrl(cur.objectName),
                          error |-> NoFailure]]

\* lines 167-175: the loop is left without a return
UploadExhausted_returnsUrl(cur) == ReturnUrl(cur)

UploadExhausted(cur) ==
  [cur EXCEPT !.pc = "rejected",
              !.result = [kind |-> "error", url |-> <<>>,
                          error |-> ExhaustedError(cur.lastError)]]

\* lines 150-165: the catch block of the loop, up to the next await
UploadCatch(cur, error) ==
  LET attempt == cur.attempt + 1
      caught == [cur EXCEPT !.lastError = CaughtError(cur.lastError, error),
                            !.attempt = attempt]
  IN  IF RetryRemaining(attempt)
      THEN [caught EXCEPT !.pc = "backoff",
                          !.waits = Append(cur.waits, waitTime(attempt))]
      ELSE UploadExhausted(caught)

WriteTarget_perAttempt(cur) ==
  buildObjectName(composeObjectPath(TargetUserId(cur.options), cur.options.directory),
                  cur.originalname, 17, cur.attempt)

\* const blob = bucket.file(objectName), made once before the loop
WriteTarget(cur) == cur.objectName

\* await this.writeFile(...) resolves: the object is stored
WriteFileFinishes(c) ==
  /\ call[c].pc = "write"
  /\ objects' = objects \cup {WriteTarget(call[c])}
  /\ LET cur == [call[c] EXCEPT !.writes = @ + 1,
                                !.written = Append(@, WriteTarget(call[c])),
                                !.targets = Append(@, WriteTarget(call[c]))]
     IN  IF EffectiveMakePublic(cur.options)
         THEN Set(c, [cur EXCEPT !.pc = "getPolicy"])
         ELSE Set(c, ReturnUrl(cur))
  /\ UNCHANGED <<config, initializationPromise, policy, publicObjects,
                 externalGrants, existsChecks, op, codec>>

\* await this.writeFile(...) rejects with the stream's error
WriteFileFails(c, error) ==
  /\ call[c].pc = "write"
  /\ Set(c, UploadCatch([call[c] EXCEPT !.writes = @ + 1, !.thrown = error,
                                        !.targets = Append(@, WriteTarget(call[c]))],
                        error))
  /\ UNCHANGED <<config, initializationPromise, policy, objects,
                 publicObjects, externalGrants, existsChecks, op, codec>>

\* the setTimeout of the backoff fires: the loop tests attempt < maxRetries
BackoffElapses(c) ==
  /\ call[c].pc = "backoff"
  /\ Set(c, IF RetryRemaining(call[c].attempt)
            THEN [call[c] EXCEPT !.pc = "write"]
            ELSE UploadExhausted(call[c]))
  /\ UNCHANGED <<config, initializationPromise, policy, objects,
                 publicObjects, externalGrants, existsChecks, op, codec>>

(* ------------------------------------------------------------------ *)
(* ensurePublicReadAccess                                              *)
(* ------------------------------------------------------------------ *)

\* lines 322-328: the error is logged and swallowed, uploadFile returns
ensurePublicReadAccessCatch_rethrows(cur, error) == UploadCatch(cur, error)

ensurePublicReadAccessCatch(cur, error) == ReturnUrl(cur)

\* bucket.iam.getPolicy resolves: lines 302-317, up to the next await
GetPolicyFinishes(c) ==
  /\ call[c].pc = "getPolicy"
  /\ LET fetched == [policy EXCEPT !.version = 3]
         cur == [call[c] EXCEPT !.before = policy]
     IN  IF alreadyPublic(fetched)
         THEN Set(c, [cur EXCEPT !.pc = "makePublic",
                                 !.localPolicy = fetched,
                                 !.policyStep = "skipped"])
         ELSE Set(c, [cur EXCEPT !.pc = "setPolicy",
                                 !.localPolicy = PushPublicBinding(fetched)])
  /\ UNCHANGED <<config, initializationPromise, policy, objects,
                 publicObjects, externalGrants, existsChecks, op, codec>>

GetPolicyFails(c, error) ==
  /\ call[c].pc = "getPolicy"
  /\ Set(c, ensurePublicReadAccessCatch(
              [call[c] EXCEPT !.before = policy, !.policyStep = "fetchFailed"],
              error))
  /\ UNCHANGED <<config, initializationPromise, policy, objects,
                 publicObjects, externalGrants, existsChecks, op, codec>>

\* the bindings of p that q does not hold
Missing(p, q) ==
  {p.bindings[i] : i \in 1..Len(p.bindings)}
    \ {q.bindings[i] : i \in 1..Len(q.bindings)}

\* bucket.iam.setPolicy(policy) resolves: the backend holds the local copy
SetPolicyFinishes(c) ==
  /\ call[c].pc = "setPolicy"
  /\ policy' = call[c].localPolicy
  /\ Set(c, [call[c] EXCEPT !.pc = "makePublic",
                            !.policyStep = "written",
                            !.lost = Missing(policy, call[c].localPolicy)])
  /\ UNCHANGED <<config, initializationPromise, objects, publicObjects,
                 externalGrants, existsChecks, op, codec>>

SetPolicyFails(c, error) ==
  /\ call[c].pc = "setPolicy"
  /\ Set(c, ensurePublicReadAccessCatch(
              [call[c] EXCEPT !.policyStep = "writeFailed"], error))
  /\ UNCHANGED <<config, initializationPromise, policy, objects,
                 publicObjects, externalGrants, existsChecks, op, codec>>

\* blob.makePublic() resolves
MakePublicFinishes(c) ==
  /\ call[c].pc = "makePublic"
  /\ publicObjects' = publicObjects \cup {call[c].objectName}
  /\ Set(c, ReturnUrl([call[c] EXCEPT !.aclStep = "ok"]))
  /\ UNCHANGED <<config, initializationPromise, policy, objects,
                 externalGrants, existsChecks, op, codec>>

\* blob.makePublic() rejects (uniform bucket-level access, for one)
MakePublicFails(c, error) ==
  /\ call[c].pc = "makePublic"
  /\ Set(c, ensurePublicReadAccessCatch(
              [call[c] EXCEPT !.aclStep = "failed"], error))
  /\ UNCHANGED <<config, initializationPromise, policy, objects,
                 publicObjects, externalGrants, existsChecks, op, codec>>

(* ------------------------------------------------------------------ *)
(* Other clients of the bucket                                         *)
(* ------------------------------------------------------------------ *)

\* another client grants a binding on the bucket's policy
ExternalGrant(b) ==
  /\ externalGrants < MaxExternalGrants
  /\ externalGrants' = externalGrants + 1
  /\ policy' = [policy EXCEPT !.hasBindings = TRUE,
                              !.bindings = Append(@, b)]
  /\ UNCHANGED <<config, initializationPromise, objects, publicObjects, call,
                 existsChecks, op, codec, existsChecks, op, codec>>

(* ------------------------------------------------------------------ *)
(* Specifications                                                      *)
(* ------------------------------------------------------------------ *)

\* a step of ensurePublicReadAccess in call c
ReconcileStep(c) ==
  \/ GetPolicyFinishes(c)
  \/ \E e \in Thrown : GetPolicyFails(c, e)
  \/ SetPolicyFinishes(c)
  \/ \E e \in Thrown : SetPolicyFails(c, e)
  \/ MakePublicFinishes(c)
  \/ \E e \in Thrown : MakePublicFails(c, e)

\* a step of call c
Step(c) ==
  \/ \E n \in OriginalNames, o \in UploadOptionsSet : UploadCalled(c, n, o)
  \/ UploadReady(c)
  \/ WriteFileFinishes(c)
  \/ \E e \in Thrown : WriteFileFails(c, e)
  \/ BackoffElapses(c)
  \/ ReconcileStep(c)

Next ==
  \/ BucketValidationSettles
  \/ \E c \in Calls : Step(c)
  \/ \E b \in ExternalBindings : ExternalGrant(b)

\* calls in flight interleave at their awaits; other clients write the policy
Spec == Init /\ [][Next]_vars

Settled(c) == call[c].pc \in {"idle", "resolved", "rejected"}

\* the calls run one after the other, in the order of their numbers
InTurn(c) ==
  \A d \in Calls \ {c} :
    IF d < c THEN call[d].pc \in {"resolved", "rejected"}
    ELSE call[d].pc = "idle"

\* one call at a time, and no other client
NextSeq ==
  \/ BucketValidationSettles
  \/ \E c \in Calls, n \in OriginalNames, o \in UploadOptionsSet :
       InTurn(c) /\ UploadCalled(c, n, o)
  \/ \E c \in Calls : InTurn(c) /\ UploadReady(c)
  \/ \E c \in Calls : InTurn(c) /\ WriteFileFinishes(c)
  \/ \E c \in Calls, e \in Thrown : InTurn(c) /\ WriteFileFails(c, e)
  \/ \E c \in Calls : InTurn(c) /\ BackoffElapses(c)
  \/ \E c \in Calls : InTurn(c) /\ GetPolicyFinishes(c)
  \/ \E c \in Calls, e \in Thrown : InTurn(c) /\ GetPolicyFails(c, e)
  \/ \E c \in Calls : InTurn(c) /\ SetPolicyFinishes(c)
  \/ \E c \in Calls, e \in Thrown : InTurn(c) /\ SetPolicyFails(c, e)
  \/ \E c \in Calls : InTurn(c) /\ MakePublicFinishes(c)
  \/ \E c \in Calls, e \in Thrown : InTurn(c) /\ MakePublicFails(c, e)

SpecSeq == Init /\ [][NextSeq]_vars

\* concurrent calls whose writes succeed at once: the reconciliations race
\* with each other and with the grants of other clients
NextRace ==
  \/ BucketValidationSettles
  \/ \E c \in Calls :
       \/ \E n \in OriginalNames, o \in UploadOptionsSet : UploadCalled(c, n, o)
       \/ UploadReady(c)
       \/ WriteFileFinishes(c)
       \/ ReconcileStep(c)
  \/ \E b \in ExternalBindings : ExternalGrant(b)

SpecRace == Init /\ [][NextRace]_vars

(* ------------------------------------------------------------------ *)
(* ready, getFileFromUrl, deleteFile, getUserFiles                     *)
(* ------------------------------------------------------------------ *)

SetOp(o, r) == op' = [op EXCEPT ![o] = r]

\* one of the four operations is called: await this.ready()
OpCalled(o, kind, url, directory, userId) ==
  /\ op[o].pc = "idle"
  /\ SetOp(o, [op[o] EXCEPT !.kind = kind, !.pc = "ready", !.url = url,
                            !.directory = directory, !.userId = userId])
  /\ UNCHANGED <<config, initializationPromise, policy, objects,
                 publicObjects, externalGrants, call, existsChecks, codec>>

\* the lines between await this.ready() and the first backend call
AfterReady(cur) ==
  IF cur.kind = "ready" THEN [cur EXCEPT !.pc = "done", !.outcome = "resolved"]
  ELSE IF cur.kind = "get"
  THEN IF cur.url = <<>>
       THEN [cur EXCEPT !.pc = "done", !.outcome = "The provided URL is empty."]
       ELSE [cur EXCEPT !.pc = "exists", !.objectName = extractObjectName(cur.url)]
  ELSE IF cur.kind = "delete"
  THEN [cur EXCEPT !.pc = "delete", !.objectName = extractObjectName(cur.url)]
  ELSE [cur EXCEPT !.pc = "getFiles"]

\* the awaited ready() of the operation settles
OpReady(o) ==
  /\ op[o].pc = "ready"
  /\ \E ok \in BOOLEAN :
       LET cur == [op[o] EXCEPT !.readyCheck = ReadyCheck(ok)]
       IN  /\ ReadySettles(ok)
           /\ IF Proceeds(ok)
              THEN SetOp(o, AfterReady(cur))
              ELSE SetOp(o, [cur EXCEPT !.pc = "done",
                                        !.outcome = "Failed to verify bucket"])
  /\ CheckIssued
  /\ UNCHANGED <<config, initializationPromise, policy, objects,
                 publicObjects, externalGrants, call, codec>>

NotFoundThrown_never(exists) == FALSE

\* if (!exists) throw new Error(`File not found at path: ${objectName}`)
NotFoundThrown(exists) == ~exists

\* getFileFromUrl: await file.exists() resolves
GetExists(o) ==
  /\ op[o].pc = "exists"
  /\ LET cur == [op[o] EXCEPT !.backendCalls = @ + 1, !.seen = objects]
     IN  IF NotFoundThrown(op[o].objectName \in objects)
         THEN SetOp(o, [cur EXCEPT !.pc = "done",
                                   !.outcome = "File not found at path"])
         ELSE SetOp(o, [cur EXCEPT !.pc = "read"])
  /\ UNCHANGED <<config, initializationPromise, policy, objects,
                 publicObjects, externalGrants, call, existsChecks, codec>>

\* getFileFromUrl: getMetadata and the read stream end; the backend
\* rejects both for a key it does not hold
GetRead(o) ==
  /\ op[o].pc = "read"
  /\ LET cur == [op[o] EXCEPT !.backendCalls = @ + 2, !.reads = @ + 1,
                              !.pc = "done"]
     IN  IF op[o].objectName \in objects
         THEN SetOp(o, [cur EXCEPT !.outcome = "resolved"])
         ELSE SetOp(o, [cur EXCEPT !.outcome = "backend: no such object"])
  /\ UNCHANGED <<config, initializationPromise, policy, objects,
                 publicObjects, externalGrants, call, existsChecks, codec>>

\* deleteFile: await file.delete() settles; the backend rejects the
\* delete of a key it does not hold
DeleteSettles(o) ==
  /\ op[o].pc = "delete"
  /\ LET cur == [op[o] EXCEPT !.backendCalls = @ + 1, !.seen = objects,
                              !.pc = "done"]
     IN  IF op[o].objectName \in objects
         THEN /\ objects' = objects \ {op[o].objectName}
              /\ publicObjects' = publicObjects \ {op[o].objectName}
              /\ SetOp(o, [cur EXCEPT !.outcome = "resolved"])
         ELSE /\ UNCHANGED <<objects, publicObjects>>
              /\ SetOp(o, [cur EXCEPT !.outcome = "backend: no such object"])
  /\ UNCHANGED <<config, initializationPromise, policy, externalGrants, call,
                 existsChecks, codec>>

ListPrefix_swapped(directory, userId) ==
  composeObjectPath(directory, TargetUserId([userId |-> userId]))

\* prefix = this.composeObjectPath(userId ?? this.defaultUserId, directory)
ListPrefix(directory, userId) ==
  composeObjectPath(TargetUserId([userId |-> userId]), directory)

ListMatches_noSlash(name, prefix) ==
  prefix = UNDEFINED \/ StartsWith(name, prefix)

\* getFiles({ prefix: prefix ? `${prefix}/` : undefined })
ListMatches(name, prefix) ==
  prefix = UNDEFINED \/ StartsWith(name, prefix \o <<"/">>)

RECURSIVE LastSegment(_)
\* file.name.split("/").pop()
LastSegment(name) ==
  IF \E i \in 1..Len(name) : name[i] = "/"
  THEN LastSegment(Tail(name))
  ELSE name

\* the FileInfo pushed for a file (its type is read from metadata the model
\* does not keep)
FileInfoOf(name) ==
  [name |-> LastSegment(name), url |-> buildPublicUrl(name), path |-> name]

\* the orders in which the backend may return the files
Orders(files) ==
  {f \in [1..Cardinality(files) -> files] :
     \A i, j \in 1..Cardinality(files) : f[i] = f[j] => i = j}

\* getUserFiles: getFiles and the getMetadata of each file resolve
ListFinishes(o) ==
  /\ op[o].pc = "getFiles"
  /\ LET prefix == ListPrefix(op[o].directory, op[o].userId)
         files == {k \in objects : ListMatches(k, prefix)}
     IN  \E f \in Orders(files) :
           SetOp(o, [op[o] EXCEPT
                       !.pc = "done",
                       !.outcome = "resolved",
                       !.seen = objects,
                       !.backendCalls = @ + 1 + Cardinality(files),
                       !.results = [i \in 1..Cardinality(files) |-> FileInfoOf(f[i])]])
  /\ UNCHANGED <<config, initializationPromise, policy, objects,
                 publicObjects, externalGrants, call, existsChecks, codec>>

(* ------------------------------------------------------------------ *)
(* One client: uploads, then the other operations, one at a time        *)
(* ------------------------------------------------------------------ *)

\* the policy of the bucket the client starts on
OpsPolicy == [version |-> 1, hasBindings |-> TRUE, bindings |-> <<>>]

\* UploadOptions of the client's uploads
OpsUploadOptions ==
  {[userId |-> UNDEFINED, directory |-> UNDEFINED, makePublic |-> "undefined"],
   [userId |-> <<"u">>, directory |-> UNDEFINED, makePublic |-> "false"],
   [userId |-> <<"u", "1">>, directory |-> <<"d", " ">>, makePublic |-> "true"]}

\* (directory, userId) arguments of getUserFiles
ListArguments ==
  {<<UNDEFINED, UNDEFINED>>, <<UNDEFINED, <<"u">>>>,
   <<<<"d", " ">>, <<"u", "1">>>>, <<<<"a">>, <<"u", "1">>>>,
   <<<<"d", "_">>, <<"u", "1">>>>}

\* a string that stops one character short of beginning like a public URL
NearUrl == SubSeq(UrlPrefix, 1, Len(UrlPrefix) - 1) \o <<"a">>

\* url arguments: the URLs uploadFile returned, the raw keys, the empty
\* string, the URL of no object and a string that is nearly a URL
UrlArguments ==
  {call[c].result.url : c \in {d \in Calls : call[d].result.kind = "url"}}
    \cup {call[c].objectName : c \in {d \in Calls : call[d].result.kind = "url"}}
    \cup {<<>>, buildPublicUrl(<<"a">>), NearUrl}

OpSettled(o) == op[o].pc = "done"

\* uploads come first, in the order of their numbers
CallTurn(c) == InTurn(c) /\ \A o \in Ops : op[o].pc = "idle"

\* then the other operations, in the order of their numbers
OpTurn(o) ==
  /\ \A c \in Calls : Settled(c)
  /\ \A q \in Ops \ {o} : IF q < o THEN OpSettled(q) ELSE op[q].pc = "idle"

NextOps ==
  \/ BucketValidationSettles
  \/ \E c \in Calls, n \in OriginalNames, o \in OpsUploadOptions :
       CallTurn(c) /\ UploadCalled(c, n, o)
  \/ \E c \in Calls : CallTurn(c) /\ UploadReady(c)
  \/ \E c \in Calls : CallTurn(c) /\ WriteFileFinishes(c)
  \/ \E c \in Calls : CallTurn(c) /\ GetPolicyFinishes(c)
  \/ \E c \in Calls : CallTurn(c) /\ SetPolicyFinishes(c)
  \/ \E c \in Calls : CallTurn(c) /\ MakePublicFinishes(c)
  \/ \E o \in Ops : OpTurn(o) /\ OpCalled(o, "ready", <<>>, UNDEFINED, UNDEFINED)
  \/ \E o \in Ops, u \in UrlArguments :
       OpTurn(o) /\ OpCalled(o, "get", u, UNDEFINED, UNDEFINED)
  \/ \E o \in Ops, u \in UrlArguments :
       OpTurn(o) /\ OpCalled(o, "delete", u, UNDEFINED, UNDEFINED)
  \/ \E o \in Ops, a \in ListArguments :
       OpTurn(o) /\ OpCalled(o, "list", <<>>, a[1], a[2])
  \/ \E o \in Ops : OpTurn(o) /\ OpReady(o)
  \/ \E o \in Ops : OpTurn(o) /\ GetExists(o)
  \/ \E o \in Ops : OpTurn(o) /\ GetRead(o)
  \/ \E o \in Ops : OpTurn(o) /\ DeleteSettles(o)
  \/ \E o \in Ops : OpTurn(o) /\ ListFinishes(o)

InitOps ==
  /\ config \in Configs
  /\ Constructed(OpsPolicy)
  /\ codec = NoCodec

SpecOps == InitOps /\ [][NextOps]_vars

(* ------------------------------------------------------------------ *)
(* The URL codec on its own                                            *)
(* ------------------------------------------------------------------ *)

\* longest key taken through the codec
MaxKeyLen == 2

KeyChars == {"a", "/", "_", "."}

RECURSIVE Strings(_, _)
\* the strings over chars of length at most n
Strings(chars, n) ==
  IF n = 0 THEN {<<>>}
  ELSE LET shorter == Strings(chars, n - 1)
       IN  shorter \cup {Append(x, ch) : x \in shorter, ch \in chars}

\* object keys, among them keys that themselves begin like a public URL
CodecKeys ==
  Strings(KeyChars, MaxKeyLen)
    \cup {UrlPrefix \o k : k \in Strings(KeyChars, MaxKeyLen)}

\* url = buildPublicUrl(key)
CodecEncode ==
  /\ codec.pc = "key"
  /\ codec' = [codec EXCEPT !.pc = "url", !.url = buildPublicUrl(codec.key)]
  /\ UNCHANGED <<config, initializationPromise, policy, objects, publicObjects,
                 externalGrants, call, existsChecks, op>>

\* decoded = extractObjectName(url)
CodecDecode ==
  /\ codec.pc = "url"
  /\ codec' = [codec EXCEPT !.pc = "decoded",
                            !.decoded = extractObjectName(codec.url)]
  /\ UNCHANGED <<config, initializationPromise, policy, objects, publicObjects,
                 externalGrants, call, existsChecks, op>>

NextCodec == CodecEncode \/ CodecDecode

InitCodec ==
  /\ config \in Configs
  /\ Constructed(OpsPolicy)
  /\ codec \in {[NoCodec EXCEPT !.pc = "key", !.key = k] : k \in CodecKeys}

SpecCodec == InitCodec /\ [][NextCodec]_vars

(* ------------------------------------------------------------------ *)
(* The naming of one upload, over many inputs                          *)
(* ------------------------------------------------------------------ *)

\* longest userId and directory given to the named upload
MaxSegmentLen == 2

\* a letter, the separator, a blank and a character outside every class
SegmentChars == {"a", "/", " ", "!"}

\* userId and directory arguments, absent ones included
SegmentArguments == Strings(SegmentChars, MaxSegmentLen) \cup {UNDEFINED}

\* originalname arguments
NamerNames == {<<"f", ".", "a">>, <<"a", "/", "-">>, <<" ", "1">>, <<>>}

NamerOptions ==
  [userId : SegmentArguments, directory : SegmentArguments,
   makePublic : {"undefined"}]

\* one uploadFile call is made and its key is built
NextNamer ==
  \/ BucketValidationSettles
  \/ \E n \in NamerNames, o \in NamerOptions : UploadCalled(1, n, o)
  \/ UploadReady(1)

SpecNamer == InitOps /\ [][NextNamer]_vars

(* ------------------------------------------------------------------ *)
(* The retry loop of uploadFile                                        *)
(* ------------------------------------------------------------------ *)

\* attempts of call c whose write failed
FailedWrites(c) == call[c].writes - Len(call[c].written)

\* the loop of call c was left because the attempts ran out
Exhausted(c) == call[c].pc = "rejected" /\ call[c].writes > 0

Min(a, b) == IF a < b THEN a ELSE b

\* C1: a call of uploadFile makes at most 3 write attempts: none follows a
\* write that succeeded, and none follows the third failed write, after
\* which the call is rejected.
C1_AtMostThreeWrites ==
  \A c \in Calls :
    /\ call[c].writes <= 3
    /\ Len(call[c].written) <= 1
    /\ Len(call[c].written) = 1 => call[c].pc \notin {"write", "backoff", "rejected"}
    /\ FailedWrites(c) = 3 => call[c].pc = "rejected"
    /\ Exhausted(c) => FailedWrites(c) = 3

C1_Witness ==
  \E c \in Calls : call[c].pc = "rejected" /\ call[c].writes = 3

\* C2: after the n-th failed write (n = 1, 2) one wait of 2^n * 100 ms is
\* started and has elapsed before attempt n + 1; no wait follows the third
\* failure; two failures and a success resolve with a URL after the waits
\* 200 then 400.
C2_BackoffWaits ==
  \A c \in Calls :
    /\ call[c].waits = SubSeq(<<200, 400>>, 1, Min(FailedWrites(c), 2))
    /\ call[c].pc = "write" => Len(call[c].waits) = FailedWrites(c)
    /\ call[c].pc = "backoff" => Len(call[c].waits) = FailedWrites(c)
    /\ (call[c].pc = "resolved" /\ FailedWrites(c) = 2) =>
         /\ call[c].result.kind = "url"
         /\ call[c].waits = <<200, 400>>

C2_Witness ==
  \E c \in Calls :
    /\ call[c].pc = "resolved"
    /\ call[c].writes = 3
    /\ call[c].result.kind = "url"
    /\ call[c].waits = <<200, 400>>

\* C3: when all 3 writes fail, the call rejects with an error that names
\* 3 attempts and carries the message of the third failure.
C3_ExhaustionError ==
  \A c \in Calls :
    Exhausted(c) =>
      /\ call[c].result.kind = "error"
      /\ call[c].result.error.attempts = 3
      /\ call[c].thrown.kind = "Error" =>
           /\ call[c].result.error.text = "Unable to upload file after N attempts: M"
           /\ call[c].result.error.message = call[c].thrown.message

C3_Witness ==
  \E c \in Calls :
    /\ Exhausted(c)
    /\ call[c].thrown = [kind |-> "Error", message |-> "ECONNRESET"]
    /\ call[c].result.error.message = "ECONNRESET"

C5_UrlMeansStored ==
  \A c \in Calls :
    call[c].result.kind = "url" =>
      /\ \E i \in 1..Len(call[c].written) :
           call[c].written[i] = extractObjectName(call[c].result.url)
      /\ extractObjectName(call[c].result.url) \in objects

C5_Witness ==
  \E c \in Calls :
    /\ call[c].result.kind = "url"
    /\ call[c].writes = 3
    /\ extractObjectName(call[c].result.url) = call[c].objectName

\* a step of the reconciliation of call c failed
ReconcileFailed(c) ==
  \/ call[c].policyStep \in {"fetchFailed", "writeFailed"}
  \/ call[c].aclStep = "failed"

\* C6: a failed policy fetch, policy write or ACL change leaves the call
\* resolved with the URL of its key: it counts as no failed attempt and
\* starts no further write and no wait.
C6_ReconcileFailureSwallowed ==
  \A c \in Calls :
    ReconcileFailed(c) =>
      /\ call[c].pc = "resolved"
      /\ call[c].result.kind = "url"
      /\ call[c].result.url = buildPublicUrl(call[c].objectName)
      /\ Len(call[c].written) = 1
      /\ call[c].attempt = FailedWrites(c)
      /\ Len(call[c].waits) = FailedWrites(c)
      /\ call[c].lastError = call[c].thrown

C6_Witness ==
  \E c, d \in Calls :
    /\ call[c].policyStep = "writeFailed"
    /\ call[d].aclStep = "failed"
    /\ call[c].pc = "resolved"
    /\ call[d].pc = "resolved"

(* ------------------------------------------------------------------ *)
(* The public-access reconciliation                                    *)
(* ------------------------------------------------------------------ *)

\* the public-read bindings of policy p, by position
PublicReadAt(p) == {i \in 1..Len(p.bindings) : IsPublicRead(p.bindings[i])}

\* the policy step of call c ran with no backend failure
PolicyStepDone(c) ==
  call[c].pc = "resolved" /\ call[c].policyStep \in {"skipped", "written"}

\* the policy fetch of call c succeeded and its run is over
Reconciled(c) ==
  /\ call[c].pc = "resolved"
  /\ call[c].policyStep \in {"skipped", "written", "writeFailed"}

\* every binding of p is in q, at the same position
Preserved(p, q) ==
  /\ Len(p.bindings) <= Len(q.bindings)
  /\ \A i \in 1..Len(p.bindings) : q.bindings[i] = p.bindings[i]

\* C7: two runs of ensurePublicReadAccess one after the other, with no
\* backend failure, leave exactly one public-read binding in the policy,
\* and the second run writes no policy.
C7_TwiceIsOnce ==
  \A c, d \in Calls :
    (c < d /\ PolicyStepDone(c) /\ PolicyStepDone(d)) =>
      /\ Cardinality(PublicReadAt(policy)) = 1
      /\ call[d].policyStep = "skipped"
      /\ policy.hasBindings

C7_Witness ==
  \E c, d \in Calls :
    /\ c < d
    /\ PolicyStepDone(c)
    /\ PolicyStepDone(d)
    /\ call[c].policyStep = "written"
    /\ call[d].policyStep = "skipped"
    /\ Len(policy.bindings) = 2

\* C8 as stated: a run keeps every binding, skips the write only when a
\* binding has both the role and the member, and leaves no two bindings
\* with the same role.
C8_AsStated ==
  \A c \in Calls :
    Reconciled(c) =>
      /\ Preserved(call[c].before, policy)
      /\ call[c].policyStep = "skipped" => PublicReadAt(call[c].before) # {}
      /\ DistinctRoles(policy.bindings)

\* C8, amended: a run keeps every binding at its place, skips the write
\* exactly when a binding has both the role and the member, appends
\* nothing but the public-read binding, and leaves no two equal bindings;
\* two bindings may share the objectViewer role.
C8_KeepsBindings ==
  \A c \in Calls :
    Reconciled(c) =>
      /\ Preserved(call[c].before, policy)
      /\ call[c].policyStep = "skipped" <=> PublicReadAt(call[c].before) # {}
      /\ \A i \in 1..Len(policy.bindings) :
           i > Len(call[c].before.bindings) => policy.bindings[i] = PublicBinding
      /\ \A i, j \in 1..Len(policy.bindings) :
           policy.bindings[i] = policy.bindings[j] => i = j

C8_Witness ==
  \E c \in Calls :
    /\ Reconciled(c)
    /\ call[c].policyStep = "written"
    /\ Len(call[c].before.bindings) = 1
    /\ call[c].before.bindings[1].role = PUBLIC_ROLE
    /\ Len(policy.bindings) = 2
    /\ policy.bindings[1] = call[c].before.bindings[1]
    /\ policy.bindings[2] = PublicBinding

\* C9 as stated: the policy write of a run removes no binding that another
\* writer added to the policy after the run's fetch.
C9_NoClobber ==
  \A c \in Calls : call[c].lost = {}

\* C10: when two calls have both fetched the policy and finished their
\* reconciliation, and at most one of their policy writes failed, the
\* policy holds a public-read binding, whatever the interleaving.
C10_RaceStillPublic ==
  \A c, d \in Calls :
    (/\ c # d
     /\ Reconciled(c)
     /\ Reconciled(d)
     /\ ~(call[c].policyStep = "writeFailed" /\ call[d].policyStep = "writeFailed"))
      => PublicReadAt(policy) # {}

\* both fetched a policy with no public-read binding, one write failed
C10_Witness ==
  \E c, d \in Calls :
    /\ Reconciled(c)
    /\ Reconciled(d)
    /\ PublicReadAt(call[c].before) = {}
    /\ PublicReadAt(call[d].before) = {}
    /\ call[c].policyStep = "written"
    /\ call[d].policyStep = "writeFailed"
    /\ PublicReadAt(policy) # {}

\* C11 as stated: every run whose policy step was skipped or performed goes
\* on to attempt the object's ACL change, whatever the policy write's
\* outcome.
C11_AclAlwaysAttempted ==
  \A c \in Calls : Reconciled(c) => call[c].aclStep # "none"

\* C12 as stated: an upload with public access makes its object public by
\* ACL alone: the bucket's policy after the upload is the one before it.
C12_BucketPolicyUntouched ==
  \A c \in Calls :
    (call[c].pc = "resolved" /\ call[c].before # NoPolicy) =>
      policy = call[c].before

(* ------------------------------------------------------------------ *)
(* Claims on the public flag, readiness and the other operations       *)
(* ------------------------------------------------------------------ *)

\* the flag as the interface states it: options.makePublic if given, else
\* the configured allowPublicAccess, true by default
StatedFlag(c) ==
  IF call[c].options.makePublic # "undefined"
  THEN call[c].options.makePublic = "true"
  ELSE config.allowPublicAccess # "false"

\* the reconciliation of call c has started
ReconcileRan(c) ==
  \/ call[c].pc \in {"getPolicy", "setPolicy", "makePublic"}
  \/ call[c].before # NoPolicy
  \/ call[c].policyStep # "none"
  \/ call[c].aclStep # "none"

\* C13: once its object is stored, an upload runs the reconciliation exactly
\* when its effective flag is true; a changed bucket policy and every public
\* object are the work of an upload whose flag is true, so an upload whose
\* flag is false leaves both as they were.
C13_FlagDecidesReconcile ==
  /\ \A c \in Calls : call[c].writes > 0 => (ReconcileRan(c) <=> StatedFlag(c))
  /\ policy # OpsPolicy =>
       \E c \in Calls : call[c].pc # "idle" /\ StatedFlag(c)
  /\ \A k \in publicObjects :
       \E c \in Calls : call[c].objectName = k /\ StatedFlag(c)

\* public access is off by default; one upload asked for it and got it, the
\* other gave no option and was left private
C13_Witness ==
  /\ config.allowPublicAccess = "false"
  /\ \E c, d \in Calls :
       /\ call[c].pc = "resolved"
       /\ call[c].options.makePublic = "true"
       /\ call[c].aclStep = "ok"
       /\ call[d].pc = "resolved"
       /\ call[d].options.makePublic = "undefined"
       /\ call[d].policyStep = "none"
       /\ call[d].objectName \notin publicObjects

\* C14 as stated: in either configuration the existence of the bucket is
\* checked at most once.
C14_CheckedAtMostOnce == existsChecks <= 1

\* C15: unless validateBucketOnStartup is false the check is started by the
\* constructor; when it is false the constructor starts none and keeps no
\* promise, and a check has been made just when some awaited ready() settled.
C15_EagerOrDeferred ==
  /\ config.validateBucketOnStartup # "false" =>
       (existsChecks >= 1 /\ initializationPromise # "absent")
  /\ config.validateBucketOnStartup = "false" =>
       /\ initializationPromise = "absent"
       /\ existsChecks = 0 <=>
            /\ \A c \in Calls : call[c].readyCheck = "none"
            /\ \A o \in Ops : op[o].readyCheck = "none"

\* deferred validation: the first check was made by a call of ready()
C15_Witness ==
  /\ config.validateBucketOnStartup = "false"
  /\ existsChecks = 1
  /\ \A c \in Calls : call[c].pc = "idle"
  /\ op[1].kind = "ready"
  /\ op[1].outcome = "resolved"
  /\ op[2].pc = "idle"

\* C16: no operation reaches the backend before its awaited ready() resolved,
\* which takes a check that succeeded; an operation whose ready() rejected
\* rejects with the validation error and has made no backend call.
C16_ReadyBeforeBackend ==
  /\ \A c \in Calls :
       /\ (call[c].pc \notin {"idle", "ready", "rejected"} \/ call[c].writes > 0
             \/ ReconcileRan(c)) => call[c].readyCheck = "ok"
       /\ call[c].readyCheck = "ok" =>
            (existsChecks >= 1 /\ initializationPromise \in {"absent", "fulfilled"})
       /\ call[c].readyCheck = "failed" =>
            /\ call[c].pc = "rejected"
            /\ call[c].result.error = BucketError
            /\ call[c].writes = 0
            /\ ~ReconcileRan(c)
  /\ \A o \in Ops :
       /\ (op[o].backendCalls > 0
             \/ op[o].pc \in {"exists", "read", "delete", "getFiles"}) =>
            op[o].readyCheck = "ok"
       /\ op[o].readyCheck = "ok" =>
            (existsChecks >= 1 /\ initializationPromise \in {"absent", "fulfilled"})
       /\ op[o].readyCheck = "failed" =>
            /\ op[o].pc = "done"
            /\ op[o].outcome = "Failed to verify bucket"
            /\ op[o].backendCalls = 0

\* an upload went through, a later listing was refused by its own check, and
\* so was a later upload
C16_Witness ==
  /\ \E c, d \in Calls :
       /\ call[c].pc = "resolved"
       /\ call[d].readyCheck = "failed"
       /\ call[d].pc = "rejected"
  /\ \E o \in Ops :
       /\ op[o].kind = "list"
       /\ op[o].readyCheck = "failed"
       /\ op[o].pc = "done"

\* a deleteFile before operation o resolved for key k
DeletedBefore(k, o) ==
  \E q \in Ops :
    /\ q < o
    /\ op[q].kind = "delete"
    /\ op[q].outcome = "resolved"
    /\ op[q].objectName = k

\* C17: a getUserFiles called with the directory and userId of an upload that
\* resolved with a URL, before any delete of its object, returns an entry
\* with that URL and the object's key as path.
C17_UploadIsListed ==
  \A c \in Calls, o \in Ops :
    ( /\ call[c].result.kind = "url"
      /\ op[o].kind = "list"
      /\ op[o].outcome = "resolved"
      /\ op[o].directory = call[c].options.directory
      /\ op[o].userId = call[c].options.userId
      /\ ~DeletedBefore(call[c].objectName, o) )
    => \E i \in 1..Len(op[o].results) :
         /\ op[o].results[i].url = call[c].result.url
         /\ op[o].results[i].path = call[c].objectName

\* the upload named a user and a directory, and the bucket holds another
\* object the listing leaves out
C17_Witness ==
  \E c \in Calls, o \in Ops :
    /\ call[c].result.kind = "url"
    /\ call[c].options.userId # UNDEFINED
    /\ call[c].options.directory # UNDEFINED
    /\ op[o].kind = "list"
    /\ op[o].outcome = "resolved"
    /\ op[o].directory = call[c].options.directory
    /\ op[o].userId = call[c].options.userId
    /\ Len(op[o].results) = 1
    /\ Cardinality(op[o].seen) = 2

\* C18: after a deleteFile(u) that resolved, a getFileFromUrl(u) that got
\* past readiness rejects with the not-found error and has read no content,
\* and a getUserFiles returns no entry for the deleted object.
C18_DeletedIsGone ==
  \A q, o \in Ops :
    (q < o /\ op[q].kind = "delete" /\ op[q].outcome = "resolved") =>
      /\ ( /\ op[o].kind = "get"
           /\ op[o].url = op[q].url
           /\ op[o].pc = "done"
           /\ op[o].readyCheck = "ok" )
         => (op[o].outcome = "File not found at path" /\ op[o].reads = 0)
      /\ (op[o].kind = "get" /\ op[o].url = op[q].url) => op[o].reads = 0
      /\ (op[o].kind = "list" /\ op[o].outcome = "resolved") =>
           \A i \in 1..Len(op[o].results) :
             /\ op[o].results[i].url # op[q].url
             /\ op[o].results[i].path # op[q].objectName

\* the URL an upload returned was deleted and then fetched
C18_Witness ==
  \E c \in Calls :
    /\ call[c].result.kind = "url"
    /\ op[1].kind = "delete"
    /\ op[1].url = call[c].result.url
    /\ op[1].outcome = "resolved"
    /\ op[2].kind = "get"
    /\ op[2].url = call[c].result.url
    /\ op[2].outcome = "File not found at path"

\* the keys the listing o is stated to return, among the stored keys it saw
StatedMatches(o) ==
  LET user == IF op[o].userId = UNDEFINED THEN config.defaultUserId
              ELSE op[o].userId
      prefix == composeObjectPath(user, op[o].directory)
  IN  IF prefix = UNDEFINED THEN op[o].seen
      ELSE {k \in op[o].seen : StartsWith(k, prefix \o <<"/">>)}

\* C19: a getUserFiles that resolved returned one entry for each stored
\* object whose key starts with the prefix and a slash, for every object when
\* there is no prefix, and no other entry; with no match that is the empty
\* list.
C19_ListIsExactlyPrefix ==
  \A o \in Ops :
    (op[o].kind = "list" /\ op[o].outcome = "resolved") =>
      /\ {op[o].results[i].path : i \in 1..Len(op[o].results)} = StatedMatches(o)
      /\ Len(op[o].results) = Cardinality(StatedMatches(o))
      /\ StatedMatches(o) = {} => op[o].results = <<>>

\* user u's listing leaves out the object of user u1, and a listing of a
\* directory with no object is empty though the bucket is not
C19_Witness ==
  /\ op[1].kind = "list"
  /\ op[1].outcome = "resolved"
  /\ op[1].userId = <<"u">>
  /\ Len(op[1].results) = 1
  /\ Cardinality(op[1].seen) = 2
  /\ op[2].kind = "list"
  /\ op[2].outcome = "resolved"
  /\ op[2].results = <<>>
  /\ op[2].seen # {}

\* C20: extractObjectName(buildPublicUrl(k)) = k for every key k.
C20_RoundTrip ==
  codec.pc = "decoded" => codec.decoded = codec.key

\* a key with a slash that itself begins like a public URL went through
C20_Witness ==
  /\ codec.pc = "decoded"
  /\ StartsWith(codec.key, UrlPrefix)
  /\ \E i \in 1..Len(codec.key) : i > Len(UrlPrefix) /\ codec.key[i] = "/"

(* ------------------------------------------------------------------ *)
(* Claims on keys, names and scopes                                    *)
(* ------------------------------------------------------------------ *)

\* C21: a getFileFromUrl or deleteFile given a string that does not start
\* with the public URL prefix works on that very string as the key: it is
\* the key decoded, the object a resolved delete removed and the object a
\* resolved fetch found.
C21_RawKeyUnchanged ==
  \A o \in Ops :
    ( /\ op[o].kind \in {"get", "delete"}
      /\ op[o].readyCheck = "ok"
      /\ ~StartsWith(op[o].url, UrlPrefix) )
    => /\ op[o].objectName = op[o].url
       /\ op[o].outcome = "resolved" =>
            /\ op[o].url \in op[o].seen
            /\ op[o].kind = "delete" => op[o].url \notin objects

\* the raw key of an upload was fetched and then deleted
C21_Witness ==
  \E c \in Calls :
    /\ call[c].result.kind = "url"
    /\ op[1].kind = "get"
    /\ op[1].url = call[c].objectName
    /\ op[1].outcome = "resolved"
    /\ op[2].kind = "delete"
    /\ op[2].url = call[c].objectName
    /\ op[2].outcome = "resolved"

\* C26 as stated: an object uploaded with a userId and a directory is never
\* returned by a getUserFiles called with a different pair of non-blank
\* userId and directory.
C26_ScopesIsolated ==
  \A c \in Calls, o \in Ops :
    ( /\ call[c].result.kind = "url"
      /\ NonBlank(call[c].options.userId)
      /\ NonBlank(call[c].options.directory)
      /\ op[o].kind = "list"
      /\ op[o].outcome = "resolved"
      /\ NonBlank(op[o].userId)
      /\ NonBlank(op[o].directory)
      /\ <<op[o].userId, op[o].directory>>
           # <<call[c].options.userId, call[c].options.directory>> )
    => \A i \in 1..Len(op[o].results) :
         op[o].results[i].path # call[c].objectName

\* the characters a key may hold: [A-Za-z0-9/_.-]
KeyAlphabet == Letters \cup Digits \cup {"/", "_", ".", "-"}

\* position of the last slash of s, 0 when it has none
LastSlash(s) ==
  IF \E i \in 1..Len(s) : s[i] = "/"
  THEN CHOOSE i \in 1..Len(s) :
         s[i] = "/" /\ \A j \in (i + 1)..Len(s) : s[j] # "/"
  ELSE 0

\* s is a non-empty run of decimal digits
IsDigits(s) == Len(s) > 0 /\ \A i \in 1..Len(s) : s[i] \in Digits

\* base is {digits}_{digits}_{name}, the name made of letters, digits,
\* dots and underscores
IsBaseName(base) ==
  \E i, j \in 1..Len(base) :
    /\ i < j
    /\ base[i] = "_"
    /\ base[j] = "_"
    /\ IsDigits(SubSeq(base, 1, i - 1))
    /\ IsDigits(SubSeq(base, i + 1, j - 1))
    /\ \A k \in (j + 1)..Len(base) :
         base[k] \in Letters \cup Digits \cup {".", "_"}

\* key is {prefix/}{digits}_{digits}_{name}: a base name, alone or after a
\* non-empty prefix and a slash
IsKeyForm(key) ==
  /\ LastSlash(key) # 1
  /\ IsBaseName(SubSeq(key, LastSlash(key) + 1, Len(key)))

\* C22: whatever the userId, directory and original name, the key built for
\* an upload is {prefix/}{digits}_{digits}_{sanitizedName} and holds no
\* character outside [A-Za-z0-9/_.-].
C22_KeyForm ==
  \A c \in Calls :
    call[c].pc = "write" =>
      /\ IsKeyForm(call[c].objectName)
      /\ \A i \in 1..Len(call[c].objectName) :
           call[c].objectName[i] \in KeyAlphabet

\* a key was built from a userId and a directory with characters to
\* replace and from a name with a slash
C22_Witness ==
  /\ call[1].pc = "write"
  /\ call[1].options.userId = <<"!", "a">>
  /\ call[1].options.directory = <<"a", " ">>
  /\ call[1].originalname = <<"a", "/", "-">>

\* the slashes of s
Slashes(s) == {i \in 1..Len(s) : s[i] = "/"}

\* the non-blank ones among the userId and directory of call c
NonBlankSegments(c) ==
  SelectSeq(<<TargetUserId(call[c].options), call[c].options.directory>>,
            NonBlank)

\* C24 as stated: the key of an upload has exactly one slash for each
\* non-blank segment among its userId and directory.
C24_OneSlashPerSegment ==
  \A c \in Calls :
    call[c].pc = "write" =>
      Cardinality(Slashes(call[c].objectName)) = Len(NonBlankSegments(c))

\* C23 as stated: no two uploadFile calls of one bucket are given the same
\* key, concurrent calls for the same user, directory and name included.
C23_KeysUnique ==
  \A c, d \in Calls :
    (c # d /\ call[c].readyCheck = "ok" /\ call[d].readyCheck = "ok") =>
      call[c].objectName # call[d].objectName

\* the calls that stored an object
Writers == {c \in Calls : call[c].written # <<>>}

\* C25: every write attempt of a call is made on the key built before the
\* loop, a call stores at most one object, the stored objects are the keys
\* of the calls that stored one, and a returned URL is that of the call's
\* key, which was written.
C25_OneKeyPerCall ==
  /\ \A c \in Calls :
       /\ Len(call[c].targets) = call[c].writes
       /\ \A i \in 1..Len(call[c].targets) :
            call[c].targets[i] = call[c].objectName
       /\ Len(call[c].written) <= 1
       /\ call[c].result.kind = "url" =>
            /\ call[c].result.url = buildPublicUrl(call[c].objectName)
            /\ call[c].written = <<call[c].objectName>>
            /\ call[c].objectName \in objects
  /\ objects = {call[c].objectName : c \in Writers}
  /\ Cardinality(objects) <= Cardinality(Writers)

\* a call got its URL on the third attempt
C25_Witness ==
  \E c \in Calls :
    /\ call[c].result.kind = "url"
    /\ call[c].writes = maxRetries
    /\ Len(call[c].targets) = maxRetries
    /\ objects = {call[c].objectName}

====
